---- MODULE Spec2Model ----
(***************************************************************************)
(* A model of the Avandra bot's tool-augmented conversation loop:          *)
(* dispatch_prompt.handle_prompt, AnthropicClient.call, the tool dispatch  *)
(* of dispatch_tool.handle_tool and the two tools it runs.                 *)
(*                                                                         *)
(* Python strings are TLA+ strings (joined with \o), lists are sequences   *)
(* and dicts are records.  A coroutine's position is the pc of its         *)
(* conversation; one action is one stretch of code between two points of   *)
(* the loop.                                                               *)
(***************************************************************************)
EXTENDS Integers, Sequences, FiniteSets, TLC

\* Conversations (invocations of handle_prompt) the model knows of.
NumConvs == 2
Convs == 1..NumConvs

\* Gateway calls one conversation may make before the model stops it.
MaxCalls == 3

\* Content blocks a freely answering provider returns over one conversation,
\* and tool invocations a direct caller of handle_tool makes.
MaxBlocks == 2

----------------------------------------------------------------------------
(* String helpers: str.join and JSON quoting.                              *)

RECURSIVE JoinStr(_, _)
\* sep.join(parts)
JoinStr(parts, sep) ==
    IF Len(parts) = 0 THEN ""
    ELSE IF Len(parts) = 1 THEN parts[1]
    ELSE parts[1] \o sep \o JoinStr(Tail(parts), sep)

\* A JSON string literal (the dataset holds no character that needs escaping).
Quote(s) == "\"" \o s \o "\""

\* The prefix test str.startswith.
StartsWith(s, prefix) ==
    /\ Len(s) >= Len(prefix)
    /\ SubSeq(s, 1, Len(prefix)) = prefix

----------------------------------------------------------------------------
(* tools/roll_dice.py                                                      *)

\* The emoji ids of the d4 faces.
D4Emoji ==
    << "<:d4_1:1361141389756203248>", "<:d4_2:1361141429585444976>",
       "<:d4_3:1361141445649629385>", "<:d4_4:1361141459910135858>" >>

\* The emoji ids of the d6 faces.
D6Emoji ==
    << "<:d6_1:1361146264963645520>", "<:d6_2:1361147339661901964>",
       "<:d6_3:1361147351624061248>", "<:d6_4:1361147359915937792>",
       "<:d6_5:1361147368187236412>", "<:d6_6:1361147376131113080>" >>

\* The emoji ids of the d20 faces; face 1 of a die that is no d20 is DOtherOne.
D20Emoji ==
    << "<:d20_1:1356083355460042923>", "<:d20_2:1356088534494351414>",
       "<:d20_3:1356088583181697206>", "<:d20_4:1356089534906896424>",
       "<:d20_5:1356094275670114318>", "<:d20_6:1356104989075968180>",
       "<:d20_7:1356105384997158932>", "<:d20_8:1356106235384172564>",
       "<:d20_9:1356131184647868476>", "<:d20_10:1356131225592659988>",
       "<:d20_11:1356131251580440707>", "<:d20_12:1356131268164583424>",
       "<:d20_13:1356131281141764247>", "<:d20_14:1356131293594910932>",
       "<:d20_15:1356131307595370506>", "<:d20_16:1356131322225102878>",
       "<:d20_17:1356138165869740153>", "<:d20_18:1356138176569151508>",
       "<:d20_19:1356138185666854997>", "<:d20_20:1356138194634276981>" >>

DOtherOne == "<:d_1:1361142075453735073>"

\* get_emoji(sides, value): the emoji of a face, or the value as a string.
get_emoji(sides, value) ==
    IF sides > 20 THEN ToString(value)
    ELSE IF sides = 4 THEN
        IF value \in 1..4 THEN D4Emoji[value] ELSE ToString(value)
    ELSE IF sides = 6 THEN
        IF value \in 1..6 THEN D6Emoji[value] ELSE ToString(value)
    ELSE IF value = 1 THEN
        IF sides = 20 THEN D20Emoji[1] ELSE DOtherOne
    ELSE IF value \in 2..20 THEN D20Emoji[value]
    ELSE ToString(value)

\* DiceRollInput.stringify
stringify(inputs) == ToString(inputs.times) \o "d" \o ToString(inputs.sides)

\* roll_dice.to_emojis
to_emojis(sides, rolls) ==
    JoinStr([i \in 1..Len(rolls) |-> get_emoji(sides, rolls[i])], " ")

\* roll with random.randint(0, sides).
roll_FromZero(sides, times) == [1..times -> 0..sides]

\* roll_dice.roll: every list random.randint can produce.
roll(sides, times) == [1..times -> 1..sides]

\* to_json({"rolls": rolls}).decode()
RollsJson(rolls) ==
    "{\"rolls\":[" \o JoinStr([i \in 1..Len(rolls) |-> ToString(rolls[i])], ",")
        \o "]}"

\* What a tool invocation does: the fragments it sent to send_reply, in order,
\* and whether it returned a string or raised an exception with that text.
Returned(emitted, value) ==
    [emitted |-> emitted, kind |-> "return", value |-> value]

Raised(emitted, description) ==
    [emitted |-> emitted, kind |-> "raise", value |-> description]

\* roll_dice(input, send_reply) on a validated input: one outcome per roll.
roll_dice(inputs) ==
    IF inputs.sides < 1
    THEN { Returned(<< >>, "Number of sides must be at least 1.") }
    ELSE { Returned(
             << stringify(inputs) \o " -> " \o to_emojis(inputs.sides, rolls) >>,
             RollsJson(rolls)) : rolls \in roll(inputs.sides, inputs.times) }

\* A tool input: a dict is a record; a str is the record [json |-> text].
IsStr(input) == DOMAIN input = {"json"}

\* from_json on the texts the model's provider sends; any other text is no JSON
\* object and fails to parse.
ParseJson(text) ==
    IF text = "{\"sides\": 2, \"times\": 2}"
    THEN [ok |-> TRUE, value |-> [sides |-> 2, times |-> 2]]
    ELSE IF text = "{\"character_name\": \"Vesper\"}"
    THEN [ok |-> TRUE, value |-> [character_name |-> "Vesper"]]
    ELSE [ok |-> FALSE]

\* The text of a pydantic ValidationError: the count, the model and one entry
\* per failing field (the bracketed detail and the help link are left out).
ValidationError(model, errors) ==
    ToString(Len(errors)) \o " validation error"
        \o (IF Len(errors) = 1 THEN "" ELSE "s") \o " for " \o model \o "\n"
        \o JoinStr(errors, "\n")

\* The entries DiceRollInput's validation reports for a dict: sides is a
\* required int >= 1, times an int >= 1 that defaults to 1; other keys are
\* ignored.
DiceRollErrors(d) ==
    (IF "sides" \notin DOMAIN d THEN << "sides\n  Field required" >>
     ELSE IF d.sides < 1
          THEN << "sides\n  Input should be greater than or equal to 1" >>
          ELSE << >>)
    \o
    (IF "times" \in DOMAIN d /\ d.times < 1
     THEN << "times\n  Input should be greater than or equal to 1" >>
     ELSE << >>)

\* DiceRollInput.model_validate(d) once it has passed: the defaults filled in.
DiceRollInput(d) ==
    [sides |-> d.sides, times |-> IF "times" \in DOMAIN d THEN d.times ELSE 1]

\* roll_dice.run(input, send_reply)
roll_dice_run(input) ==
    LET parsed == IF IsStr(input) THEN ParseJson(input.json)
                  ELSE [ok |-> TRUE, value |-> input]
    IN  IF ~parsed.ok
        THEN { Raised(<< >>, ValidationError("DiceRollInput",
                           << "  Invalid JSON" >>)) }
        ELSE IF DiceRollErrors(parsed.value) # << >>
        THEN { Raised(<< >>, ValidationError("DiceRollInput",
                           DiceRollErrors(parsed.value))) }
        ELSE roll_dice(DiceRollInput(parsed.value))

----------------------------------------------------------------------------
(* tools/character_sheet.py                                                *)

AbilityScore(score, proficient) == [score |-> score, proficient |-> proficient]

CharacterClass(class_name, level) == [class_name |-> class_name, level |-> level]

\* The keys of the dict literal, in the order they are written.
SheetNames == << "Alistair Darrow", "Hoglat", "Vesper", "Zauber Stab" >>

\* The dict literal that sheets is bound to when the module is imported.
SheetsAtImport ==
    [n \in {SheetNames[i] : i \in 1..Len(SheetNames)} |->
      CASE n = "Alistair Darrow" ->
        [name |-> "Alistair Darrow", race |-> "Human", gender |-> "Male",
         total_character_level |-> 3,
         classes |-> << CharacterClass("Wizard", 3) >>,
         strength |-> AbilityScore(9, FALSE),
         dexterity |-> AbilityScore(13, FALSE),
         constitution |-> AbilityScore(11, FALSE),
         intelligence |-> AbilityScore(16, TRUE),
         wisdom |-> AbilityScore(14, TRUE),
         charisma |-> AbilityScore(15, FALSE),
         skill_proficiencies |->
            << "Arcana", "Athletics", "Insight", "Investigation" >>,
         weapon_proficiencies |->
            << "Crossbow", "Light Dagger", "Quarterstaff", "Sling" >>,
         other |-> << >>]
      [] n = "Hoglat" ->
        [name |-> "Hoglat", race |-> "Human", gender |-> "Male",
         total_character_level |-> 3,
         classes |-> << CharacterClass("Cleric", 3) >>,
         strength |-> AbilityScore(16, TRUE),
         dexterity |-> AbilityScore(12, FALSE),
         constitution |-> AbilityScore(15, FALSE),
         intelligence |-> AbilityScore(8, FALSE),
         wisdom |-> AbilityScore(14, TRUE),
         charisma |-> AbilityScore(10, FALSE),
         skill_proficiencies |->
            << "Acrobatics", "Athletics (Expertise)", "Insight",
               "Intimidation", "Medicine" >>,
         weapon_proficiencies |->
            << "Maul", "Simple Weapons", "Heavy Weapons" >>,
         other |-> << >>]
      [] n = "Vesper" ->
        [name |-> "Vesper", race |-> "Stout Halfling", gender |-> "Male",
         total_character_level |-> 3,
         classes |-> << CharacterClass("Bard", 3) >>,
         strength |-> AbilityScore(10, FALSE),
         dexterity |-> AbilityScore(15, TRUE),
         constitution |-> AbilityScore(13, FALSE),
         intelligence |-> AbilityScore(14, FALSE),
         wisdom |-> AbilityScore(8, FALSE),
         charisma |-> AbilityScore(15, TRUE),
         skill_proficiencies |->
            << "Acrobatics", "Deception", "Insight (Expertise)",
               "Performance (Expertise)", "Persuasion" >>,
         weapon_proficiencies |->
            << "Crossbow", "Hand", "Longsword", "Rapier", "Shortsword",
               "Simple Weapons" >>,
         other |->
            << "Advantage against being frightened",
               "Advantage against poison", "Jack of All Trades" >>]
      [] n = "Zauber Stab" ->
        [name |-> "Zauber Stab", race |-> "Half-Orc", gender |-> "Male",
         total_character_level |-> 3,
         classes |-> << CharacterClass("Barbarian", 3) >>,
         strength |-> AbilityScore(16, TRUE),
         dexterity |-> AbilityScore(13, FALSE),
         constitution |-> AbilityScore(16, TRUE),
         intelligence |-> AbilityScore(10, FALSE),
         wisdom |-> AbilityScore(12, FALSE),
         charisma |-> AbilityScore(8, FALSE),
         skill_proficiencies |-> << "Athletics", "Intimidation", "Survival" >>,
         weapon_proficiencies |-> << "Martial Weapons", "Simple Weapons" >>,
         other |->
            << "Advantage on DEX against effects that you can see while not blinded, deafened, or incapacitated.",
               "+1 on all Arcana checks." >>]]

\* sheets: the module-level dict every conversation reads.
VARIABLE sheets

\* list(sheets.keys()): the keys in insertion order.
SheetKeys == SelectSeq(SheetNames, LAMBDA n : n \in DOMAIN sheets)

\* A JSON array of strings at nesting depth one, as indent=2 prints it.
DumpStrList(xs) ==
    IF Len(xs) = 0 THEN "[]"
    ELSE "[\n    "
         \o JoinStr([i \in 1..Len(xs) |-> Quote(xs[i])], ",\n    ")
         \o "\n  ]"

DumpAbility(a) ==
    "{\n    \"score\": " \o ToString(a.score)
        \o ",\n    \"proficient\": " \o (IF a.proficient THEN "true" ELSE "false")
        \o "\n  }"

DumpClass(k) ==
    "{\n      \"class_name\": " \o Quote(k.class_name)
        \o ",\n      \"level\": " \o ToString(k.level) \o "\n    }"

DumpClasses(ks) ==
    IF Len(ks) = 0 THEN "[]"
    ELSE "[\n    "
         \o JoinStr([i \in 1..Len(ks) |-> DumpClass(ks[i])], ",\n    ")
         \o "\n  ]"

\* CharacterSheet.model_dump_json(indent=2)
model_dump_json(sheet) ==
    "{\n  \"name\": " \o Quote(sheet.name)
    \o ",\n  \"race\": " \o Quote(sheet.race)
    \o ",\n  \"gender\": " \o Quote(sheet.gender)
    \o ",\n  \"total_character_level\": " \o ToString(sheet.total_character_level)
    \o ",\n  \"classes\": " \o DumpClasses(sheet.classes)
    \o ",\n  \"strength\": " \o DumpAbility(sheet.strength)
    \o ",\n  \"dexterity\": " \o DumpAbility(sheet.dexterity)
    \o ",\n  \"constitution\": " \o DumpAbility(sheet.constitution)
    \o ",\n  \"intelligence\": " \o DumpAbility(sheet.intelligence)
    \o ",\n  \"wisdom\": " \o DumpAbility(sheet.wisdom)
    \o ",\n  \"charisma\": " \o DumpAbility(sheet.charisma)
    \o ",\n  \"skill_proficiencies\": " \o DumpStrList(sheet.skill_proficiencies)
    \o ",\n  \"weapon_proficiencies\": " \o DumpStrList(sheet.weapon_proficiencies)
    \o ",\n  \"other\": " \o DumpStrList(sheet.other)
    \o "\n}"

\* get_character_sheet that also hands the sheet to send_reply.
get_character_sheet_Emits(inputs) ==
    IF inputs.character_name \notin DOMAIN sheets
    THEN Raised(<< >>, "Character " \o inputs.character_name \o " not found.")
    ELSE Returned(<< model_dump_json(sheets[inputs.character_name]) >>,
                  model_dump_json(sheets[inputs.character_name]))

\* get_character_sheet(input)
get_character_sheet(inputs) ==
    IF inputs.character_name \notin DOMAIN sheets
    THEN Raised(<< >>, "Character " \o inputs.character_name \o " not found.")
    ELSE Returned(<< >>, model_dump_json(sheets[inputs.character_name]))

\* character_sheet.run(input, send_reply): character_name is a required str;
\* the enum of the field is schema text only and is not validated.
character_sheet_run(input) ==
    LET parsed == IF IsStr(input) THEN ParseJson(input.json)
                  ELSE [ok |-> TRUE, value |-> input]
    IN  IF ~parsed.ok
        THEN { Raised(<< >>, ValidationError("GetCharacterSheetInput",
                           << "  Invalid JSON" >>)) }
        ELSE IF "character_name" \notin DOMAIN parsed.value
        THEN { Raised(<< >>, ValidationError("GetCharacterSheetInput",
                           << "character_name\n  Field required" >>)) }
        ELSE { get_character_sheet(
                 [character_name |-> parsed.value.character_name]) }

\* to_json(list(sheets.keys())).decode()
PartyMembersJson ==
    "[" \o JoinStr([i \in 1..Len(SheetKeys) |-> Quote(SheetKeys[i])], ",")
        \o "]"

\* character_sheet.system_prompt(character_name): a fresh dict on every call.
system_prompt(character_name) ==
    IF character_name \notin DOMAIN sheets
    THEN [type |-> "text",
          text |-> "The party members are: " \o PartyMembersJson]
    ELSE [type |-> "text",
          text |-> "The party members are: " \o PartyMembersJson \o "\n\n"
                   \o "Here is the player's character sheet:\n"
                   \o model_dump_json(sheets[character_name])]

----------------------------------------------------------------------------
(* dispatch_tool.py                                                        *)

\* handle_tool with the send_reply of the default case left out.
handle_tool_NoEmit(tool_name, tool_input) ==
    IF tool_name = "get_character_sheet" THEN character_sheet_run(tool_input)
    ELSE IF tool_name = "roll_dice" THEN roll_dice_run(tool_input)
    ELSE { Returned(<< >>, "Unknown tool: " \o tool_name) }

\* handle_tool with a default case that raises ValueError.
handle_tool_RaisesUnknown(tool_name, tool_input) ==
    IF tool_name = "get_character_sheet" THEN character_sheet_run(tool_input)
    ELSE IF tool_name = "roll_dice" THEN roll_dice_run(tool_input)
    ELSE { Raised(<< >>, "Unknown tool: " \o tool_name) }

\* handle_tool(tool_name, tool_input, send_reply): the outcomes it can have.
handle_tool(tool_name, tool_input) ==
    IF tool_name = "get_character_sheet" THEN character_sheet_run(tool_input)
    ELSE IF tool_name = "roll_dice" THEN roll_dice_run(tool_input)
    ELSE { Returned(<< "Unknown tool: " \o tool_name >>,
                    "Unknown tool: " \o tool_name) }

----------------------------------------------------------------------------
(* The provider behind AnthropicClient.call_api: what it may answer.       *)

Text(text) == [type |-> "text", text |-> text]

ToolUse(id, name, input) ==
    [type |-> "tool_use", id |-> id, name |-> name, input |-> input]

\* A content block of a type the loop does not know.
OtherBlock == [type |-> "thinking"]

\* The provider's stop_reason values: tool-requested, end-of-turn, other.
StopReasons == {"tool_use", "end_turn", "max_tokens"}

\* The failure a Gateway call may raise.
GatewayErrors == {"Connection error."}

\* The blocks a freely answering provider chooses from (ids are set by Stamp).
FreeBlocks ==
    { Text("Rolling..."),
      OtherBlock,
      ToolUse("", "roll_dice", [sides |-> 2]),
      ToolUse("", "roll_dice", [sides |-> 0]),
      ToolUse("", "get_character_sheet", [character_name |-> "Hoglat"]),
      ToolUse("", "get_character_sheet", [character_name |-> "Nobody"]),
      ToolUse("", "roll", [sides |-> 2]) }

\* The provider gives every tool use a fresh id: here the call and the position.
Stamp(blocks, call) ==
    [i \in 1..Len(blocks) |->
        IF blocks[i].type = "tool_use"
        THEN [blocks[i] EXCEPT
                !.id = "toolu_" \o ToString(call) \o "_" \o ToString(i)]
        ELSE blocks[i]]

\* Every content of at most n blocks.
Contents(n) == UNION { [1..k -> FreeBlocks] : k \in 0..n }

\* The two answers of Scenario B: text and a 2d20 roll, then a closing text.
ScenarioB ==
    << [content |-> << Text("Rolling..."),
                       ToolUse("", "roll_dice", [sides |-> 20, times |-> 2]) >>,
        stop_reason |-> "tool_use"],
       [content |-> << Text("You rolled well!") >>,
        stop_reason |-> "end_turn"] >>

\* AnthropicClient.mock_call_api: the canned message.
mock_call_api ==
    [content |-> << Text("I'll roll 2d20 with disadvantage for you."),
                    ToolUse("toolu_01Met3ioxHuaVAabavjxva2s", "roll_dice",
                            [request |-> [sides |-> 20, times |-> 2,
                                          mode |-> "disadvantage"]]) >>,
     stop_reason |-> "tool_use"]

\* MockAnthropicClient.call_api is a plain def that returns the canned message;
\* the await of call() on that value raises this TypeError.
AwaitTypeError == "object Message can't be used in 'await' expression"

\* The anthropic_client handed in: an AnthropicClient whose provider answers
\* freely from FreeBlocks or replays Scenario B, or a MockAnthropicClient.
Providers == {"free", "scenarioB", "mock"}

\* The answers to conversation c when several conversations run at once: a
\* text and the request of a stranger's character sheet, then a block of
\* unknown type and the roll of one die of two sides.
Concurrent(c) ==
    << [content |-> << Text("Rolling for " \o ToString(c)),
                       ToolUse("", "get_character_sheet",
                               [character_name |-> "Nobody"]) >>,
        stop_reason |-> "tool_use"],
       [content |-> << OtherBlock,
                       ToolUse("", "roll_dice", [sides |-> 2]) >>,
        stop_reason |-> "end_turn"] >>

\* The callers' inputs.
CharacterNames == {"Hoglat", ""}

\* The names of the callers that run at once: a party member, a stranger and
\* the empty name of an unknown user.
ConcurrentNames == {"Hoglat", "Nobody", ""}

UserPrompts == {"emojis", "emojis please"}

----------------------------------------------------------------------------
(* State: one invocation of handle_prompt per conversation.                *)

VARIABLES
    pc,            \* where the conversation's coroutine stands
    args,          \* handle_prompt's character_name and user_prompt
    provider,      \* the provider behind the anthropic_client handed in
    system,        \* system_prompt as _ask_claude built it; << >> before
    messages,      \* AnthropicClient.call: the history
    replies,       \* AnthropicClient.call: the reply buffer of the iteration
    tool_results,  \* AnthropicClient.call: the tool results of the iteration
    message,       \* AnthropicClient.call: the assistant message in work
    idx,           \* position of the for loop over message.content
    sink,          \* what the caller's send_reply has received, in order
    callLog,       \* each call_api: the messages handed in, and how many
                   \* messages send_reply had received when it started
    respLog,       \* how each call_api ended, in order
    toolLog        \* every handle_tool invocation and its outcome, in order

vars == << sheets, pc, args, provider, system, messages, replies, tool_results,
           message, idx, sink, callLog, respLog, toolLog >>

\* No assistant message yet.
NoMessage == [content |-> << >>, stop_reason |-> "none"]

Init ==
    /\ sheets = SheetsAtImport
    /\ pc = [c \in Convs |-> "idle"]
    /\ args = [c \in Convs |-> [character_name |-> "", user_prompt |-> ""]]
    /\ provider = [c \in Convs |-> "none"]
    /\ system = [c \in Convs |-> << >>]
    /\ messages = [c \in Convs |-> << >>]
    /\ replies = [c \in Convs |-> << >>]
    /\ tool_results = [c \in Convs |-> << >>]
    /\ message = [c \in Convs |-> NoMessage]
    /\ idx = [c \in Convs |-> 1]
    /\ sink = [c \in Convs |-> << >>]
    /\ callLog = [c \in Convs |-> << >>]
    /\ respLog = [c \in Convs |-> << >>]
    /\ toolLog = [c \in Convs |-> << >>]

----------------------------------------------------------------------------
(* dispatch_prompt.py                                                      *)

\* _get_emojis: the catalog string.
EmojiCatalog ==
    JoinStr([i \in 1..4 |-> get_emoji(4, i)], "")
    \o JoinStr([i \in 1..6 |-> get_emoji(6, i)], "")
    \o get_emoji(19, 1)
    \o JoinStr([i \in 1..20 |-> get_emoji(20, i)], "")

\* The fixed instructional segment of _ask_claude.
BaseSegment ==
    [type |-> "text",
     text |-> "You are the goddess Avandra, patron deity of luck and adventure. "
              \o "You help run a D&D 5e campaign by reading a character sheet and "
              \o "rolling dice."
              \o "\n\n"
              \o "Before rolling dice, explain the relevant character stat and what "
              \o "dice you will roll, but don't describe the outcomes."]

\* _ask_claude: the system prompt of a character.
AssembleSystemPrompt(character_name) ==
    LET character_prompt == system_prompt(character_name)
    IN  << BaseSegment,
           [type |-> character_prompt.type, text |-> character_prompt.text,
            cache_control |-> [type |-> "ephemeral"]] >>

\* AnthropicClient.call: the history a conversation starts with.
FirstMessages(user_prompt) ==
    << [role |-> "user",
        content |-> << [type |-> "text", text |-> user_prompt,
                        cache_control |-> [type |-> "ephemeral"]] >>] >>

\* handle_prompt without the "emojis" case: every prompt goes to _ask_claude.
HandlePrompt_NoShortcut(c, anthropic_client, character_name, user_prompt) ==
    /\ pc[c] = "idle"
    /\ provider' = [provider EXCEPT ![c] = anthropic_client]
    /\ args' = [args EXCEPT ![c] = [character_name |-> character_name,
                                    user_prompt |-> user_prompt]]
    /\ system' = [system EXCEPT ![c] = AssembleSystemPrompt(character_name)]
    /\ messages' = [messages EXCEPT ![c] = FirstMessages(user_prompt)]
    /\ replies' = [replies EXCEPT ![c] = << >>]
    /\ callLog' = [callLog EXCEPT ![c] =
                      Append(@, [messages |-> FirstMessages(user_prompt),
                                 sent |-> Len(sink[c])])]
    /\ pc' = [pc EXCEPT ![c] = "call_api"]
    /\ UNCHANGED << sheets, sink, tool_results, message, idx, respLog, toolLog >>

\* system_prompt with sheets.pop(character_name, None) for the lookup.
HandlePrompt_PopsSheet(c, anthropic_client, character_name, user_prompt) ==
    /\ pc[c] = "idle"
    /\ provider' = [provider EXCEPT ![c] = anthropic_client]
    /\ args' = [args EXCEPT ![c] = [character_name |-> character_name,
                                    user_prompt |-> user_prompt]]
    /\ IF user_prompt = "emojis"
       THEN /\ sink' = [sink EXCEPT ![c] = Append(@, EmojiCatalog)]
            /\ pc' = [pc EXCEPT ![c] = "emojis"]
            /\ UNCHANGED << sheets, system, messages, replies, callLog >>
       ELSE /\ system' = [system EXCEPT ![c] = AssembleSystemPrompt(character_name)]
            /\ sheets' = [n \in DOMAIN sheets \ {character_name} |-> sheets[n]]
            /\ messages' = [messages EXCEPT ![c] = FirstMessages(user_prompt)]
            /\ replies' = [replies EXCEPT ![c] = << >>]
            /\ callLog' = [callLog EXCEPT ![c] =
                              Append(@, [messages |-> FirstMessages(user_prompt),
                                         sent |-> Len(sink[c])])]
            /\ pc' = [pc EXCEPT ![c] = "call_api"]
            /\ UNCHANGED sink
    /\ UNCHANGED << tool_results, message, idx, respLog, toolLog >>

\* handle_prompt up to its first await: "emojis" sends the catalog, any other
\* prompt builds the system prompt and enters AnthropicClient.call, which
\* starts its first call_api.
HandlePrompt(c, anthropic_client, character_name, user_prompt) ==
    /\ pc[c] = "idle"
    /\ provider' = [provider EXCEPT ![c] = anthropic_client]
    /\ args' = [args EXCEPT ![c] = [character_name |-> character_name,
                                    user_prompt |-> user_prompt]]
    /\ IF user_prompt = "emojis"
       THEN /\ sink' = [sink EXCEPT ![c] = Append(@, EmojiCatalog)]
            /\ pc' = [pc EXCEPT ![c] = "emojis"]
            /\ UNCHANGED << system, messages, replies, callLog >>
       ELSE /\ system' = [system EXCEPT ![c] = AssembleSystemPrompt(character_name)]
            /\ messages' = [messages EXCEPT ![c] = FirstMessages(user_prompt)]
            /\ replies' = [replies EXCEPT ![c] = << >>]
            /\ callLog' = [callLog EXCEPT ![c] =
                              Append(@, [messages |-> FirstMessages(user_prompt),
                                         sent |-> Len(sink[c])])]
            /\ pc' = [pc EXCEPT ![c] = "call_api"]
            /\ UNCHANGED sink
    /\ UNCHANGED << sheets, tool_results, message, idx, respLog, toolLog >>

\* _get_emojis: send_reply has returned; handle_prompt is over.
EmojisSent(c) ==
    /\ pc[c] = "emojis"
    /\ pc' = [pc EXCEPT ![c] = "done"]
    /\ UNCHANGED << sheets, args, provider, system, messages, replies, tool_results, message,
                    idx, sink, callLog, respLog, toolLog >>

----------------------------------------------------------------------------
(* backends/anthropic.py: AnthropicClient.call                             *)

\* Content blocks the provider has returned to the conversation so far.
BlocksUsed(c) ==
    LET n[i \in 0..Len(respLog[c])] ==
            IF i = 0 THEN 0
            ELSE n[i - 1] + (IF respLog[c][i].kind = "message"
                             THEN Len(respLog[c][i].message.content) ELSE 0)
    IN  n[Len(respLog[c])]

\* What await self.call_api(...) may raise: the TypeError with the mock,
\* nothing in Scenario B, a failure of the Gateway otherwise.
Failures(c) ==
    IF provider[c] = "mock" THEN { AwaitTypeError }
    ELSE IF provider[c] = "scenarioB" THEN { }
    ELSE GatewayErrors

\* What await self.call_api(...) may return to the call in flight; with the
\* mock the await never returns.
Answers(c) ==
    IF pc[c] # "call_api" \/ provider[c] = "mock" THEN { }
    ELSE IF provider[c] = "scenarioB"
    THEN IF Len(callLog[c]) <= Len(ScenarioB)
         THEN { [content |-> Stamp(ScenarioB[Len(callLog[c])].content, Len(callLog[c])),
                 stop_reason |-> ScenarioB[Len(callLog[c])].stop_reason] }
         ELSE { }
    ELSE IF provider[c] = "concurrent"
    THEN IF Len(callLog[c]) <= Len(Concurrent(c))
         THEN { [content |-> Stamp(Concurrent(c)[Len(callLog[c])].content,
                                   Len(callLog[c])),
                 stop_reason |-> Concurrent(c)[Len(callLog[c])].stop_reason] }
         ELSE { }
    ELSE { [content |-> Stamp(blocks, Len(callLog[c])), stop_reason |-> stop] :
             blocks \in Contents(MaxBlocks - BlocksUsed(c)), stop \in StopReasons }

\* The except branch with continue in place of break: the call is retried.
GatewayRaise_Retry(c, e) ==
    /\ pc[c] = "call_api"
    /\ e \in Failures(c)
    /\ Len(callLog[c]) < MaxCalls
    /\ replies' = [replies EXCEPT ![c] = << >>]
    /\ respLog' = [respLog EXCEPT ![c] = Append(@, [kind |-> "error", error |-> e])]
    /\ callLog' = [callLog EXCEPT ![c] =
                      Append(@, [messages |-> messages[c], sent |-> Len(sink[c])])]
    /\ UNCHANGED << sheets, pc, args, provider, system, messages, tool_results, message,
                    idx, sink, toolLog >>

\* call_api raised: the except branch appends the error to replies and breaks
\* out of the while loop; nothing after the loop sends.
\* The except branch with the buffer sent to the sink before the break.
GatewayRaise_SendsError(c, e) ==
    /\ pc[c] = "call_api"
    /\ e \in Failures(c)
    /\ replies' = [replies EXCEPT ![c] = Append(@, "Error: " \o e)]
    /\ sink' = [sink EXCEPT ![c] = Append(@, JoinStr(replies'[c], "\n"))]
    /\ respLog' = [respLog EXCEPT ![c] = Append(@, [kind |-> "error", error |-> e])]
    /\ pc' = [pc EXCEPT ![c] = "done"]
    /\ UNCHANGED << sheets, args, provider, system, messages, tool_results, message, idx,
                    callLog, toolLog >>

GatewayRaise(c, e) ==
    /\ pc[c] = "call_api"
    /\ e \in Failures(c)
    /\ replies' = [replies EXCEPT ![c] = Append(@, "Error: " \o e)]
    /\ respLog' = [respLog EXCEPT ![c] = Append(@, [kind |-> "error", error |-> e])]
    /\ pc' = [pc EXCEPT ![c] = "done"]
    /\ UNCHANGED << sheets, args, provider, system, messages, tool_results, message, idx,
                    sink, callLog, toolLog >>

\* tool_results created once before the while loop, not in every iteration.
GatewayReturn_KeepResults(c) ==
    /\ pc[c] = "call_api"
    /\ \E m \in Answers(c) :
        /\ message' = [message EXCEPT ![c] = m]
        /\ messages' = [messages EXCEPT ![c] =
                          Append(@, [role |-> "assistant", content |-> m.content])]
        /\ respLog' = [respLog EXCEPT ![c] =
                         Append(@, [kind |-> "message", message |-> m])]
    /\ idx' = [idx EXCEPT ![c] = 1]
    /\ pc' = [pc EXCEPT ![c] = "blocks"]
    /\ UNCHANGED << sheets, args, provider, system, replies, tool_results, sink,
                    callLog, toolLog >>

\* messages[-1] = ... in place of messages.append(...): the assistant turn
\* overwrites the last turn of the history.
GatewayReturn_Overwrites(c) ==
    /\ pc[c] = "call_api"
    /\ \E m \in Answers(c) :
        /\ message' = [message EXCEPT ![c] = m]
        /\ messages' = [messages EXCEPT ![c][Len(messages[c])] =
                          [role |-> "assistant", content |-> m.content]]
        /\ respLog' = [respLog EXCEPT ![c] =
                         Append(@, [kind |-> "message", message |-> m])]
    /\ tool_results' = [tool_results EXCEPT ![c] = << >>]
    /\ idx' = [idx EXCEPT ![c] = 1]
    /\ pc' = [pc EXCEPT ![c] = "blocks"]
    /\ UNCHANGED << sheets, args, provider, system, replies, sink, callLog, toolLog >>

\* call_api returned a message: the assistant turn joins the history and the
\* for loop over its content starts.
GatewayReturn(c) ==
    /\ pc[c] = "call_api"
    /\ \E m \in Answers(c) :
        /\ message' = [message EXCEPT ![c] = m]
        /\ messages' = [messages EXCEPT ![c] =
                          Append(@, [role |-> "assistant", content |-> m.content])]
        /\ respLog' = [respLog EXCEPT ![c] =
                         Append(@, [kind |-> "message", message |-> m])]
    /\ tool_results' = [tool_results EXCEPT ![c] = << >>]
    /\ idx' = [idx EXCEPT ![c] = 1]
    /\ pc' = [pc EXCEPT ![c] = "blocks"]
    /\ UNCHANGED << sheets, args, provider, system, replies, sink, callLog, toolLog >>

\* The content block the for loop stands at.
Block(c) == message[c].content[idx[c]]

AtBlock(c) == pc[c] = "blocks" /\ idx[c] <= Len(message[c].content)

\* replies kept in one list that every conversation appends to.
ProcessText_SharedReplies(c) ==
    /\ AtBlock(c)
    /\ Block(c).type = "text"
    /\ replies' = [d \in Convs |-> Append(replies[d], Block(c).text)]
    /\ idx' = [idx EXCEPT ![c] = @ + 1]
    /\ UNCHANGED << sheets, pc, args, provider, system, messages, tool_results, message,
                    sink, callLog, respLog, toolLog >>

\* case "text"
ProcessText(c) ==
    /\ AtBlock(c)
    /\ Block(c).type = "text"
    /\ replies' = [replies EXCEPT ![c] = Append(@, Block(c).text)]
    /\ idx' = [idx EXCEPT ![c] = @ + 1]
    /\ UNCHANGED << sheets, pc, args, provider, system, messages, tool_results, message,
                    sink, callLog, respLog, toolLog >>

\* The tool_result block of a tool use that returned.
ToolResult(tool_use_id, content) ==
    [type |-> "tool_result", tool_use_id |-> tool_use_id, content |-> content]

\* case "tool_use" without the try: an exception of the tool leaves call().
ProcessToolUse_Uncaught(c) ==
    /\ AtBlock(c)
    /\ Block(c).type = "tool_use"
    /\ \E o \in handle_tool(Block(c).name, Block(c).input) :
        /\ replies' = [replies EXCEPT ![c] = @ \o o.emitted]
        /\ tool_results' = [tool_results EXCEPT ![c] =
                              IF o.kind = "return"
                              THEN Append(@, ToolResult(Block(c).id, o.value))
                              ELSE @]
        /\ toolLog' = [toolLog EXCEPT ![c] =
                         Append(@, [call |-> Len(callLog[c]), block |-> idx[c],
                                    id |-> Block(c).id, name |-> Block(c).name,
                                    input |-> Block(c).input, outcome |-> o])]
        /\ pc' = [pc EXCEPT ![c] = IF o.kind = "raise" THEN "done" ELSE @]
    /\ idx' = [idx EXCEPT ![c] = @ + 1]
    /\ UNCHANGED << sheets, args, provider, system, messages, message, sink, callLog,
                    respLog >>

\* case "tool_use": handle_tool runs with enqueue_reply as its send_reply; its
\* fragments join replies as it sends them; a return adds a tool result, an
\* exception adds "Error: ..." to replies instead.
ProcessToolUse(c) ==
    /\ AtBlock(c)
    /\ Block(c).type = "tool_use"
    /\ \E o \in handle_tool(Block(c).name, Block(c).input) :
        /\ replies' = [replies EXCEPT ![c] =
                         @ \o o.emitted
                           \o (IF o.kind = "raise"
                               THEN << "Error: " \o o.value >> ELSE << >>)]
        /\ tool_results' = [tool_results EXCEPT ![c] =
                              IF o.kind = "return"
                              THEN Append(@, ToolResult(Block(c).id, o.value))
                              ELSE @]
        /\ toolLog' = [toolLog EXCEPT ![c] =
                         Append(@, [call |-> Len(callLog[c]), block |-> idx[c],
                                    id |-> Block(c).id, name |-> Block(c).name,
                                    input |-> Block(c).input, outcome |-> o])]
    /\ idx' = [idx EXCEPT ![c] = @ + 1]
    /\ UNCHANGED << sheets, pc, args, provider, system, messages, message, sink, callLog,
                    respLog >>

\* case _
\* The default case followed by a break out of the for loop.
ProcessOther_SkipsRest(c) ==
    /\ AtBlock(c)
    /\ Block(c).type \notin {"text", "tool_use"}
    /\ replies' = [replies EXCEPT ![c] =
                     Append(@, "Unknown content type: " \o Block(c).type)]
    /\ idx' = [idx EXCEPT ![c] = Len(message[c].content) + 1]
    /\ UNCHANGED << sheets, pc, args, provider, system, messages, tool_results, message,
                    sink, callLog, respLog, toolLog >>

ProcessOther(c) ==
    /\ AtBlock(c)
    /\ Block(c).type \notin {"text", "tool_use"}
    /\ replies' = [replies EXCEPT ![c] =
                     Append(@, "Unknown content type: " \o Block(c).type)]
    /\ idx' = [idx EXCEPT ![c] = @ + 1]
    /\ UNCHANGED << sheets, pc, args, provider, system, messages, tool_results, message,
                    sink, callLog, respLog, toolLog >>

\* messages.append inside a loop over tool_results: one user turn per result.
AppendToolResults_OneTurnEach(c) ==
    /\ pc[c] = "blocks"
    /\ idx[c] > Len(message[c].content)
    /\ messages' = [messages EXCEPT ![c] =
                      @ \o [i \in 1..Len(tool_results[c]) |->
                              [role |-> "user",
                               content |-> << tool_results[c][i] >>]]]
    /\ pc' = [pc EXCEPT ![c] = "send"]
    /\ UNCHANGED << sheets, args, provider, system, replies, tool_results, message,
                    idx, sink, callLog, respLog, toolLog >>

\* After the for loop: the tool results, if any, join the history as one user
\* turn; the reply buffer has not been sent yet.
AppendToolResults(c) ==
    /\ pc[c] = "blocks"
    /\ idx[c] > Len(message[c].content)
    /\ messages' = [messages EXCEPT ![c] =
                      IF Len(tool_results[c]) > 0
                      THEN Append(@, [role |-> "user", content |-> tool_results[c]])
                      ELSE @]
    /\ pc' = [pc EXCEPT ![c] = "send"]
    /\ UNCHANGED << sheets, args, provider, system, replies, tool_results, message, idx,
                    sink, callLog, respLog, toolLog >>

\* send_reply called without the test of len(replies).
SendReplies_Unguarded(c) ==
    /\ pc[c] = "send"
    /\ sink' = [sink EXCEPT ![c] = Append(@, JoinStr(replies[c], "\n"))]
    /\ pc' = [pc EXCEPT ![c] = "check"]
    /\ UNCHANGED << sheets, args, provider, system, messages, replies, tool_results,
                    message, idx, callLog, respLog, toolLog >>

\* One send_reply per entry of replies in place of the one joined message.
SendReplies_PerEntry(c) ==
    /\ pc[c] = "send"
    /\ sink' = [sink EXCEPT ![c] = @ \o replies[c]]
    /\ pc' = [pc EXCEPT ![c] = "check"]
    /\ UNCHANGED << sheets, args, provider, system, messages, replies, tool_results,
                    message, idx, callLog, respLog, toolLog >>

\* if len(replies) > 0: await send_reply("\n".join(replies))
SendReplies(c) ==
    /\ pc[c] = "send"
    /\ sink' = [sink EXCEPT ![c] =
                  IF Len(replies[c]) > 0
                  THEN Append(@, JoinStr(replies[c], "\n"))
                  ELSE @]
    /\ pc' = [pc EXCEPT ![c] = "check"]
    /\ UNCHANGED << sheets, args, provider, system, messages, replies, tool_results,
                    message, idx, callLog, respLog, toolLog >>

\* A break that does not look at stop_reason.
Break_Always(c) ==
    /\ pc[c] = "check"
    /\ pc' = [pc EXCEPT ![c] = "done"]
    /\ UNCHANGED << sheets, args, provider, system, messages, replies, tool_results,
                    message, idx, sink, callLog, respLog, toolLog >>

\* if message.stop_reason != "tool_use": break
Break(c) ==
    /\ pc[c] = "check"
    /\ message[c].stop_reason # "tool_use"
    /\ pc' = [pc EXCEPT ![c] = "done"]
    /\ UNCHANGED << sheets, args, provider, system, messages, replies, tool_results, message,
                    idx, sink, callLog, respLog, toolLog >>

\* replies created once before the while loop, not in every iteration.
Continue_KeepReplies(c) ==
    /\ pc[c] = "check"
    /\ message[c].stop_reason = "tool_use"
    /\ Len(callLog[c]) < MaxCalls
    /\ callLog' = [callLog EXCEPT ![c] =
                      Append(@, [messages |-> messages[c], sent |-> Len(sink[c])])]
    /\ pc' = [pc EXCEPT ![c] = "call_api"]
    /\ UNCHANGED << sheets, args, provider, system, messages, replies, tool_results,
                    message, idx, sink, respLog, toolLog >>

\* A loop of at most two iterations in place of while True.
Continue_Capped(c) ==
    /\ pc[c] = "check"
    /\ message[c].stop_reason = "tool_use"
    /\ IF Len(callLog[c]) < 2
       THEN /\ replies' = [replies EXCEPT ![c] = << >>]
            /\ callLog' = [callLog EXCEPT ![c] =
                              Append(@, [messages |-> messages[c],
                                         sent |-> Len(sink[c])])]
            /\ pc' = [pc EXCEPT ![c] = "call_api"]
       ELSE /\ pc' = [pc EXCEPT ![c] = "done"]
            /\ UNCHANGED << replies, callLog >>
    /\ UNCHANGED << sheets, args, provider, system, messages, tool_results, message, idx,
                    sink, respLog, toolLog >>

\* The next iteration of the while loop: a fresh reply buffer and the next
\* call_api, with the history as it stands.
\* The next iteration begun without awaiting send_reply first.
Continue_BeforeSend(c) ==
    /\ pc[c] \in {"send", "check"}
    /\ message[c].stop_reason = "tool_use"
    /\ Len(callLog[c]) < MaxCalls
    /\ replies' = [replies EXCEPT ![c] = << >>]
    /\ callLog' = [callLog EXCEPT ![c] =
                      Append(@, [messages |-> messages[c], sent |-> Len(sink[c])])]
    /\ pc' = [pc EXCEPT ![c] = "call_api"]
    /\ UNCHANGED << sheets, args, provider, system, messages, tool_results, message, idx,
                    sink, respLog, toolLog >>

Continue(c) ==
    /\ pc[c] = "check"
    /\ message[c].stop_reason = "tool_use"
    /\ Len(callLog[c]) < MaxCalls
    /\ replies' = [replies EXCEPT ![c] = << >>]
    /\ callLog' = [callLog EXCEPT ![c] =
                      Append(@, [messages |-> messages[c], sent |-> Len(sink[c])])]
    /\ pc' = [pc EXCEPT ![c] = "call_api"]
    /\ UNCHANGED << sheets, args, provider, system, messages, tool_results, message, idx,
                    sink, respLog, toolLog >>

----------------------------------------------------------------------------
(* The specification: one conversation, every input and every answer.      *)

Step(c) ==
    \/ \E a \in Providers, n \in CharacterNames, p \in UserPrompts :
            HandlePrompt(c, a, n, p)
    \/ EmojisSent(c)
    \/ \E e \in GatewayErrors \cup { AwaitTypeError } : GatewayRaise(c, e)
    \/ GatewayReturn(c)
    \/ ProcessText(c)
    \/ ProcessToolUse(c)
    \/ ProcessOther(c)
    \/ AppendToolResults(c)
    \/ SendReplies(c)
    \/ Break(c)
    \/ Continue(c)

Next == Step(1)

Spec == Init /\ [][Next]_vars

----------------------------------------------------------------------------
(* Several conversations at once: on_message starts a handle_prompt for    *)
(* every incoming message, and the event loop runs one of them up to its   *)
(* next suspension point, in any order.                                    *)

StepConc(c) ==
    \/ \E n \in ConcurrentNames, p \in UserPrompts :
            HandlePrompt(c, "concurrent", n, p)
    \/ EmojisSent(c)
    \/ \E e \in GatewayErrors \cup { AwaitTypeError } : GatewayRaise(c, e)
    \/ GatewayReturn(c)
    \/ ProcessText(c)
    \/ ProcessToolUse(c)
    \/ ProcessOther(c)
    \/ AppendToolResults(c)
    \/ SendReplies(c)
    \/ Break(c)
    \/ Continue(c)

NextConc == \E c \in Convs : StepConc(c)

SpecConc == Init /\ [][NextConc]_vars

----------------------------------------------------------------------------
(* The tools on their own: handle_tool called with the caller's send_reply. *)

\* The tool names a caller may pass.
ToolNames == {"get_character_sheet", "roll_dice", "roll", "Roll_Dice", ""}

\* The tool inputs a caller may pass: dicts, and strs holding JSON or not.
ToolInputs ==
    { [sides |-> 2], [sides |-> 2, times |-> 2], [sides |-> 0],
      [sides |-> 1, times |-> 0], [times |-> 1],
      [request |-> [sides |-> 20, times |-> 2, mode |-> "disadvantage"]],
      [character_name |-> "Hoglat"], [character_name |-> "Nobody"],
      [json |-> "{\"sides\": 2, \"times\": 2}"],
      [json |-> "{\"character_name\": \"Vesper\"}"],
      [json |-> "{\"sides\": "] }

\* await handle_tool(tool_name, tool_input, send_reply), send_reply being the
\* caller's sink.
DispatchTool(c, tool_name, tool_input) ==
    /\ pc[c] = "idle"
    /\ Len(toolLog[c]) < MaxBlocks
    /\ \E o \in handle_tool(tool_name, tool_input) :
        /\ sink' = [sink EXCEPT ![c] = @ \o o.emitted]
        /\ toolLog' = [toolLog EXCEPT ![c] =
                         Append(@, [call |-> 0, block |-> 0, id |-> "",
                                    name |-> tool_name, input |-> tool_input,
                                    outcome |-> o])]
    /\ UNCHANGED << sheets, pc, args, provider, system, messages, replies, tool_results,
                    message, idx, callLog, respLog >>

NextTools == \E n \in ToolNames, i \in ToolInputs : DispatchTool(1, n, i)

SpecTools == Init /\ [][NextTools]_vars

\* call() run by a caller that passes a handle_tool of its own (the
\* handle_tool parameter of call): the outcomes such a callable can have
\* with the send_reply it is given, among them fragments emitted before it
\* raises.
CallerTool(tool_name, tool_input) ==
    { Returned(<< "Working on " \o tool_name >>, "ok"),
      Raised(<< >>, "tool failed"),
      Raised(<< "Working on " \o tool_name >>, "tool failed"),
      Raised(<< "Working on " \o tool_name, "Half done" >>, "tool failed") }

\* The system prompts and user prompts such a caller passes.
CallerSystemPrompts == { << >>, << BaseSegment >> }

CallerPrompts == {"roll", "look it up"}

\* The entry of call(): the first messages, the empty reply buffer, and on
\* to the first call_api.
Call(c, system_segments, user_prompt) ==
    /\ pc[c] = "idle"
    /\ provider' = [provider EXCEPT ![c] = "concurrent"]
    /\ args' = [args EXCEPT ![c] = [character_name |-> "",
                                    user_prompt |-> user_prompt]]
    /\ system' = [system EXCEPT ![c] = system_segments]
    /\ messages' = [messages EXCEPT ![c] = FirstMessages(user_prompt)]
    /\ replies' = [replies EXCEPT ![c] = << >>]
    /\ callLog' = [callLog EXCEPT ![c] =
                      Append(@, [messages |-> FirstMessages(user_prompt),
                                 sent |-> Len(sink[c])])]
    /\ pc' = [pc EXCEPT ![c] = "call_api"]
    /\ UNCHANGED << sheets, sink, tool_results, message, idx, respLog, toolLog >>

\* The tool_use case with the fragments of a tool that raises kept back.
CallToolUse_DropsEmitted(c) ==
    /\ AtBlock(c)
    /\ Block(c).type = "tool_use"
    /\ \E o \in CallerTool(Block(c).name, Block(c).input) :
        /\ replies' = [replies EXCEPT ![c] =
                         IF o.kind = "raise"
                         THEN Append(@, "Error: " \o o.value)
                         ELSE @ \o o.emitted]
        /\ tool_results' = [tool_results EXCEPT ![c] =
                              IF o.kind = "return"
                              THEN Append(@, ToolResult(Block(c).id, o.value))
                              ELSE @]
        /\ toolLog' = [toolLog EXCEPT ![c] =
                         Append(@, [call |-> Len(callLog[c]), block |-> idx[c],
                                    id |-> Block(c).id, name |-> Block(c).name,
                                    input |-> Block(c).input, outcome |-> o])]
    /\ idx' = [idx EXCEPT ![c] = @ + 1]
    /\ UNCHANGED << sheets, pc, args, provider, system, messages, message, sink, callLog,
                    respLog >>

\* The tool_use case of the for loop with the caller's handle_tool.
CallToolUse(c) ==
    /\ AtBlock(c)
    /\ Block(c).type = "tool_use"
    /\ \E o \in CallerTool(Block(c).name, Block(c).input) :
        /\ replies' = [replies EXCEPT ![c] =
                         @ \o o.emitted
                           \o (IF o.kind = "raise"
                               THEN << "Error: " \o o.value >> ELSE << >>)]
        /\ tool_results' = [tool_results EXCEPT ![c] =
                              IF o.kind = "return"
                              THEN Append(@, ToolResult(Block(c).id, o.value))
                              ELSE @]
        /\ toolLog' = [toolLog EXCEPT ![c] =
                         Append(@, [call |-> Len(callLog[c]), block |-> idx[c],
                                    id |-> Block(c).id, name |-> Block(c).name,
                                    input |-> Block(c).input, outcome |-> o])]
    /\ idx' = [idx EXCEPT ![c] = @ + 1]
    /\ UNCHANGED << sheets, pc, args, provider, system, messages, message, sink, callLog,
                    respLog >>

StepLoop(c) ==
    \/ \E s \in CallerSystemPrompts, p \in CallerPrompts : Call(c, s, p)
    \/ \E e \in GatewayErrors : GatewayRaise(c, e)
    \/ GatewayReturn(c)
    \/ ProcessText(c)
    \/ CallToolUse(c)
    \/ ProcessOther(c)
    \/ AppendToolResults(c)
    \/ SendReplies(c)
    \/ Break(c)
    \/ Continue(c)

NextLoop == StepLoop(1)

SpecLoop == Init /\ [][NextLoop]_vars

----------------------------------------------------------------------------
(* Vocabulary of the properties.                                           *)

Last(seq) == seq[Len(seq)]

\* The conversation went through AnthropicClient.call and its loop is over.
LoopEnded(c) == pc[c] = "done" /\ Len(callLog[c]) > 0

\* The k-th Gateway call of c returned an assistant message.
Answered(c, k) == k <= Len(respLog[c]) /\ respLog[c][k].kind = "message"

\* The for loop over the k-th answer has run to its end.
TurnProcessed(c, k) ==
    /\ Answered(c, k)
    /\ \/ k < Len(respLog[c])
       \/ pc[c] \in {"send", "check", "done"}
       \/ pc[c] = "blocks" /\ idx[c] > Len(message[c].content)

\* The positions of the tool_use blocks of a content, in order.
ToolUsePositions(content) ==
    LET F[i \in 0..Len(content)] ==
            IF i = 0 THEN << >>
            ELSE IF content[i].type = "tool_use" THEN Append(F[i - 1], i)
            ELSE F[i - 1]
    IN  F[Len(content)]

\* The handle_tool invocations of the k-th iteration, in order.
Invocations(c, k) == SelectSeq(toolLog[c], LAMBDA e : e.call = k)

\* Turn t of a history carries a tool result for the tool use id.
HasResultFor(turn, id) ==
    \E j \in 1..Len(turn.content) :
        /\ turn.content[j].type = "tool_result"
        /\ turn.content[j].tool_use_id = id

\* The index of the last assistant turn of c's history, 0 if there is none.
LastAssistant(c) ==
    LET F[i \in 0..Len(messages[c])] ==
            IF i = 0 THEN 0
            ELSE IF messages[c][i].role = "assistant" THEN i ELSE F[i - 1]
    IN  F[Len(messages[c])]

----------------------------------------------------------------------------
(* The claims.                                                             *)

\* C1: when a Gateway call fails, the sink has received a message starting
\* with "Error: " that carries the failure description by the time the loop
\* is over; when the first call fails the sink has received exactly one
\* message and no tool was invoked.
C1_GatewayErrorIsSent ==
    \A c \in Convs :
        (LoopEnded(c) /\ Last(respLog[c]).kind = "error") =>
            /\ \E i \in 1..Len(sink[c]) :
                   StartsWith(sink[c][i], "Error: " \o Last(respLog[c]).error)
            /\ Len(respLog[c]) = 1 =>
                   (Len(sink[c]) = 1 /\ toolLog[c] = << >>)

\* C2: after every iteration of the loop no two consecutive turns of the
\* history have the same role.
C2_RolesAlternate ==
    \A c \in Convs :
        pc[c] \in {"check", "done"} =>
            \A i \in 1..(Len(messages[c]) - 1) :
                messages[c][i].role # messages[c][i + 1].role

\* C3: every Gateway call is made with a history whose last turn is a user
\* (or tool-result) turn, never an assistant turn.
C3_CallsEndWithUserTurn ==
    \A c \in Convs :
        \A k \in 1..Len(callLog[c]) :
            Last(callLog[c][k].messages).role = "user"

\* C4: every tool_result block of the history carries the id of a tool_use
\* block of the assistant turn right before the turn that holds it.
C4_ResultsReferencePrecedingTurn ==
    \A c \in Convs :
        \A i \in 1..Len(messages[c]) :
            \A j \in 1..Len(messages[c][i].content) :
                messages[c][i].content[j].type = "tool_result" =>
                    /\ i > 1
                    /\ messages[c][i - 1].role = "assistant"
                    /\ \E b \in 1..Len(messages[c][i - 1].content) :
                        /\ messages[c][i - 1].content[b].type = "tool_use"
                        /\ messages[c][i - 1].content[b].id =
                               messages[c][i].content[j].tool_use_id

\* A second round of tool use has put its results into the history.
C4_Witness ==
    \E c \in Convs :
        /\ Len(messages[c]) >= 5
        /\ HasResultFor(messages[c][3], "toolu_1_1")
        /\ HasResultFor(messages[c][5], "toolu_2_1")

\* The result of the tool use id has been handed to some Gateway call.
ResultSentBack(c, id) ==
    \E k \in 1..Len(callLog[c]) :
        \E i \in 1..Len(callLog[c][k].messages) :
            HasResultFor(callLog[c][k].messages[i], id)

\* C5 as stated: when the loop is over, the last assistant turn holds no
\* tool_use block whose result has not been sent back to the Gateway.
C5_NoPendingToolUseAtEnd ==
    \A c \in Convs :
        (LoopEnded(c) /\ LastAssistant(c) > 0) =>
            LET turn == messages[c][LastAssistant(c)]
            IN  \A b \in 1..Len(turn.content) :
                    turn.content[b].type = "tool_use" =>
                        ResultSentBack(c, turn.content[b].id)

\* C5 as amended: the loop is over only after a failed Gateway call or after
\* an assistant turn whose stop_reason is not "tool_use"; that turn is the
\* last assistant turn of the history.
C5_EndsOnFailureOrStop ==
    \A c \in Convs :
        LoopEnded(c) =>
            /\ Len(respLog[c]) = Len(callLog[c])
            /\ \/ Last(respLog[c]).kind = "error"
               \/ /\ Last(respLog[c]).message.stop_reason # "tool_use"
                  /\ LastAssistant(c) > 0
                  /\ messages[c][LastAssistant(c)].content =
                         Last(respLog[c]).message.content

\* The loop is over after a turn whose tool use returned a result that no
\* Gateway call has received.
C5_Witness ==
    \E c \in Convs :
        /\ LoopEnded(c)
        /\ Last(respLog[c]).kind = "message"
        /\ \E e \in 1..Len(toolLog[c]) :
            /\ toolLog[c][e].call = Len(callLog[c])
            /\ toolLog[c][e].outcome.kind = "return"
            /\ HasResultFor(Last(messages[c]), toolLog[c][e].id)
            /\ ~ResultSentBack(c, toolLog[c][e].id)

\* C6: after a failed Gateway call the loop is over: the failed call is the
\* last one, no tool ran after it and the history is the one handed to it.
C6_NoRetryAfterGatewayFailure ==
    \A c \in Convs :
        \A k \in 1..Len(respLog[c]) :
            respLog[c][k].kind = "error" =>
                /\ k = Len(respLog[c])
                /\ k = Len(callLog[c])
                /\ pc[c] = "done"
                /\ messages[c] = callLog[c][k].messages
                /\ \A t \in 1..Len(toolLog[c]) : toolLog[c][t].call < k

\* The second Gateway call failed, after a first round that ran a tool.
C6_Witness ==
    \E c \in Convs :
        /\ Len(respLog[c]) = 2
        /\ respLog[c][2].kind = "error"
        /\ Len(toolLog[c]) > 0

\* The tool-result turn of the k-th iteration: one block per invocation that
\* returned, in order; no turn when none returned.
ResultTurns(c, k) ==
    LET returned == SelectSeq(Invocations(c, k),
                              LAMBDA e : e.outcome.kind = "return")
    IN  IF Len(returned) = 0 THEN << >>
        ELSE << [role |-> "user",
                 content |-> [i \in 1..Len(returned) |->
                                ToolResult(returned[i].id,
                                           returned[i].outcome.value)]] >>

\* The k-th answer put something into the reply buffer.
TurnHasReplies(c, k) ==
    \/ \E i \in 1..Len(respLog[c][k].message.content) :
           respLog[c][k].message.content[i].type # "tool_use"
    \/ \E e \in 1..Len(toolLog[c]) :
           /\ toolLog[c][e].call = k
           /\ \/ toolLog[c][e].outcome.emitted # << >>
              \/ toolLog[c][e].outcome.kind = "raise"

\* C7: a call follows only a turn with stop_reason "tool_use"; it starts after
\* that turn's replies went to the sink as one message and takes the history
\* extended by the assistant turn and its tool-result turn.  A turn with
\* stop_reason "end_turn" is the last: its text goes out as a message of its
\* own.  In Scenario B that is two calls and two messages, the first message
\* (the text and the roll's breakdown) sent before the second call starts.
C7_FlushThenNextCall ==
    \A c \in Convs :
        /\ \A k \in 2..Len(callLog[c]) :
            /\ Answered(c, k - 1)
            /\ respLog[c][k - 1].message.stop_reason = "tool_use"
            /\ callLog[c][k].messages =
                   callLog[c][k - 1].messages
                   \o << [role |-> "assistant",
                          content |-> respLog[c][k - 1].message.content] >>
                   \o ResultTurns(c, k - 1)
            /\ callLog[c][k].sent =
                   callLog[c][k - 1].sent
                   + (IF TurnHasReplies(c, k - 1) THEN 1 ELSE 0)
            /\ respLog[c][k - 1].message.content # << >>
               /\ respLog[c][k - 1].message.content[1].type = "text"
               => StartsWith(sink[c][callLog[c][k].sent],
                             respLog[c][k - 1].message.content[1].text)
        /\ \A k \in 1..Len(respLog[c]) :
            (Answered(c, k) /\ respLog[c][k].message.stop_reason = "end_turn") =>
                /\ k = Len(callLog[c])
                /\ pc[c] \in {"blocks", "send", "check", "done"}
                /\ (pc[c] \in {"check", "done"}
                    /\ respLog[c][k].message.content = << Text("Rolling...") >>)
                   => (Len(sink[c]) = callLog[c][k].sent + 1
                       /\ Last(sink[c]) = "Rolling...")
        /\ provider[c] = "scenarioB" =>
            /\ Len(callLog[c]) <= 2
            /\ pc[c] = "check" => (Len(respLog[c]) = 2 <=>
                                   message[c].stop_reason # "tool_use")
            /\ LoopEnded(c) =>
                /\ Len(callLog[c]) = 2 /\ Len(respLog[c]) = 2
                /\ Len(toolLog[c]) = 1
                /\ toolLog[c][1].outcome.kind = "return"
                /\ Len(toolLog[c][1].outcome.emitted) = 1
                /\ StartsWith(toolLog[c][1].outcome.emitted[1], "2d20 -> ")
                /\ sink[c] = << "Rolling...\n" \o toolLog[c][1].outcome.emitted[1],
                                "You rolled well!" >>
                /\ callLog[c][2].sent = 1
                /\ callLog[c][2].messages =
                       FirstMessages(args[c].user_prompt)
                       \o << [role |-> "assistant",
                              content |-> respLog[c][1].message.content],
                             [role |-> "user",
                              content |-> << ToolResult("toolu_1_2",
                                               toolLog[c][1].outcome.value) >>] >>

\* Scenario B has run to its end, and the dice showed 3 and 17.
C7_Witness ==
    \E c \in Convs :
        /\ provider[c] = "scenarioB"
        /\ pc[c] = "done"
        /\ Len(sink[c]) = 2
        /\ toolLog[c][1].outcome.value = "{\"rolls\":[3,17]}"

\* C8: a tool invocation that raises puts "Error: <description>" into the
\* reply buffer; the later blocks of the turn are still processed, so every
\* tool use of a processed turn was invoked, in order; the failing tool use
\* has no tool_result in the history; and the loop is not over while the
\* turn's stop_reason is "tool_use".
C8_ToolFailureIsContained ==
    \A c \in Convs :
        /\ \A e \in 1..Len(toolLog[c]) :
            toolLog[c][e].outcome.kind = "raise" =>
                /\ (toolLog[c][e].call = Len(callLog[c])
                    /\ pc[c] \in {"blocks", "send", "check"})
                   => \E r \in 1..Len(replies[c]) :
                          replies[c][r] = "Error: " \o toolLog[c][e].outcome.value
                /\ \A i \in 1..Len(messages[c]) :
                       ~HasResultFor(messages[c][i], toolLog[c][e].id)
        /\ \A k \in 1..Len(respLog[c]) :
            TurnProcessed(c, k) =>
                LET used == ToolUsePositions(respLog[c][k].message.content)
                    ran == Invocations(c, k)
                IN  /\ Len(ran) = Len(used)
                    /\ \A i \in 1..Len(used) :
                        /\ ran[i].block = used[i]
                        /\ ran[i].id = respLog[c][k].message.content[used[i]].id
        /\ (LoopEnded(c) /\ Last(respLog[c]).kind = "message") =>
               Last(respLog[c]).message.stop_reason # "tool_use"

\* A turn's first tool use raised, its second returned a result, and the
\* loop went on to the next Gateway call.
C8_Witness ==
    \E c \in Convs :
        /\ Len(callLog[c]) = 2
        /\ Len(toolLog[c]) >= 2
        /\ toolLog[c][1].call = 1 /\ toolLog[c][1].outcome.kind = "raise"
        /\ toolLog[c][1].name = "get_character_sheet"
        /\ toolLog[c][2].call = 1 /\ toolLog[c][2].outcome.kind = "return"
        /\ toolLog[c][2].block > toolLog[c][1].block

\* C9: for a tool name other than "get_character_sheet" and "roll_dice",
\* handle_tool returns "Unknown tool: <name>" without raising and sends that
\* string, and nothing else, to the side channel once.
C9_UnknownToolReturnsAndEmits ==
    \A c \in Convs :
        /\ \A e \in 1..Len(toolLog[c]) :
            toolLog[c][e].name \notin {"get_character_sheet", "roll_dice"} =>
                toolLog[c][e].outcome =
                    [emitted |-> << "Unknown tool: " \o toolLog[c][e].name >>,
                     kind |-> "return",
                     value |-> "Unknown tool: " \o toolLog[c][e].name]
        /\ (Len(toolLog[c]) = 1
            /\ toolLog[c][1].name \notin {"get_character_sheet", "roll_dice"})
           => sink[c] = << "Unknown tool: " \o toolLog[c][1].name >>

\* handle_tool was called with the name "Roll_Dice" and a valid dice request.
C9_Witness ==
    \E c \in Convs :
        /\ Len(toolLog[c]) = 1
        /\ toolLog[c][1].name = "Roll_Dice"
        /\ toolLog[c][1].input = [sides |-> 2, times |-> 2]
        /\ sink[c] = << "Unknown tool: Roll_Dice" >>

\* C10: the prompt "emojis" sends the catalog to the sink, once, with no
\* Gateway call, no tool invocation and no system prompt built; any other
\* prompt builds the system prompt and calls the Gateway at least once.
C10_EmojisBypassesGateway ==
    \A c \in Convs :
        pc[c] # "idle" =>
            IF args[c].user_prompt = "emojis"
            THEN /\ sink[c] = << EmojiCatalog >>
                 /\ StartsWith(EmojiCatalog, D4Emoji[1] \o D4Emoji[2])
                 /\ callLog[c] = << >> /\ respLog[c] = << >>
                 /\ toolLog[c] = << >>
                 /\ system[c] = << >> /\ messages[c] = << >>
                 /\ pc[c] \in {"emojis", "done"}
            ELSE /\ Len(callLog[c]) >= 1
                 /\ system[c] # << >>

\* handle_prompt("emojis") has finished.
C10_Witness ==
    \E c \in Convs : pc[c] = "done" /\ args[c].user_prompt = "emojis"

\* The reply entries the k-th answer to c produces, in the order of its
\* blocks: a text, what a tool use emitted and the error it raised, the
\* diagnostic of a block of unknown type.
TurnEntries(c, k) ==
    LET content == respLog[c][k].message.content
        F[i \in 0..Len(content)] ==
            IF i = 0 THEN << >>
            ELSE LET ran == SelectSeq(Invocations(c, k), LAMBDA e : e.block = i)
                 IN  F[i - 1] \o
                     (IF content[i].type = "text" THEN << content[i].text >>
                      ELSE IF content[i].type = "tool_use"
                      THEN IF ran = << >> THEN << >>
                           ELSE ran[1].outcome.emitted
                                \o (IF ran[1].outcome.kind = "raise"
                                    THEN << "Error: " \o ran[1].outcome.value >>
                                    ELSE << >>)
                      ELSE << "Unknown content type: " \o content[i].type >>)
    IN  F[Len(content)]

\* The k-th iteration of c has gone past its send_reply.
TurnSent(c, k) ==
    Answered(c, k) /\ (k < Len(callLog[c]) \/ pc[c] \in {"check", "done"})

\* What the sink of c holds when c runs on its own and meets the Gateway
\* answers and tool outcomes logged for c: the catalog for "emojis", else one
\* joined message for every iteration sent whose entries are not empty.
AloneSink(c) ==
    LET F[k \in 0..Len(respLog[c])] ==
            IF k = 0
            THEN IF pc[c] # "idle" /\ args[c].user_prompt = "emojis"
                 THEN << EmojiCatalog >> ELSE << >>
            ELSE IF TurnSent(c, k) /\ TurnEntries(c, k) # << >>
            THEN Append(F[k - 1], JoinStr(TurnEntries(c, k), "\n"))
            ELSE F[k - 1]
    IN  F[Len(respLog[c])]

\* The history, the reply buffer and the sink of a conversation change only
\* in a step in which that conversation's own coroutine moves on.
OnlyOwnSteps ==
    \A c \in Convs :
        (pc'[c] = pc[c] /\ idx'[c] = idx[c]) =>
            /\ messages'[c] = messages[c]
            /\ replies'[c] = replies[c]
            /\ sink'[c] = sink[c]

\* C11: when conversations interleave at their suspension points, the
\* history, the reply buffer and the sink of a conversation change only in
\* that conversation's own steps, and its sink holds at every moment the
\* messages it holds when the conversation runs alone with the same Gateway
\* answers and tool outcomes.
C11_ConversationsAreIsolated ==
    /\ [](\A c \in Convs : sink[c] = AloneSink(c))
    /\ [][OnlyOwnSteps]_vars

\* One conversation is in its second iteration, its first message sent, while
\* another stands in the middle of its first turn, a text in its buffer and
\* its tool use not yet run.
C11_Witness ==
    \E c, d \in Convs :
        /\ c # d
        /\ pc[c] = "blocks" /\ Len(respLog[c]) = 2 /\ Len(sink[c]) = 1
        /\ pc[d] = "blocks" /\ Len(respLog[d]) = 1 /\ idx[d] = 2
        /\ replies[d] = << "Rolling for " \o ToString(d) >>

\* C12: the loop is over only after a Gateway call that failed or returned a
\* stop_reason other than "tool_use", and then it makes no further call: a
\* failed call ends it at once, and after the turn of such an answer only the
\* break can be taken.  Every call but the last returned "tool_use"; after
\* the turn of an answer with "tool_use" the break cannot be taken and the
\* next call can, however many calls came before, so the loop is never over
\* while every answer is "tool_use".
C12_EndsIffFailureOrStop ==
    \A c \in Convs :
        /\ \A k \in 1..Len(respLog[c]) :
            IF Answered(c, k) /\ respLog[c][k].message.stop_reason = "tool_use"
            THEN ~(k = Len(callLog[c]) /\ pc[c] = "done")
            ELSE k = Len(callLog[c])
        /\ LoopEnded(c) =>
               /\ Len(respLog[c]) = Len(callLog[c])
               /\ ~(Answered(c, Len(respLog[c]))
                    /\ Last(respLog[c]).message.stop_reason = "tool_use")
        /\ (Len(respLog[c]) > 0 /\ Last(respLog[c]).kind = "error") => pc[c] = "done"
        /\ pc[c] \in {"blocks", "send"} => ENABLED Step(c)
        /\ pc[c] = "check" =>
               IF message[c].stop_reason = "tool_use"
               THEN /\ ~ENABLED Break(c)
                    /\ Len(callLog[c]) < MaxCalls => ENABLED Continue(c)
               ELSE /\ ENABLED Break(c)
                    /\ ~ENABLED Continue(c)

\* Two calls returned "tool_use" and the loop has made the third call.
C12_Witness ==
    \E c \in Convs :
        /\ Len(callLog[c]) >= 3
        /\ \A k \in 1..2 :
               Answered(c, k) /\ respLog[c][k].message.stop_reason = "tool_use"

\* The string s holds the string sub as a part.
Contains(s, sub) ==
    \E i \in 1..(Len(s) - Len(sub) + 1) : SubSeq(s, i, i + Len(sub) - 1) = sub

\* C13: once the history holds the tool-result turn with a tool's return
\* value, the sink has received, in a message of that iteration, every
\* fragment the tool emitted while it ran.
C13_FragmentsSentBeforeResultJoinsHistory ==
    \A c \in Convs :
        \A e \in 1..Len(toolLog[c]) :
            (/\ toolLog[c][e].call > 0
             /\ toolLog[c][e].outcome.kind = "return"
             /\ \E i \in 1..Len(messages[c]) :
                    HasResultFor(messages[c][i], toolLog[c][e].id))
            => \A f \in 1..Len(toolLog[c][e].outcome.emitted) :
                   \E m \in (callLog[c][toolLog[c][e].call].sent + 1)..Len(sink[c]) :
                       Contains(sink[c][m], toolLog[c][e].outcome.emitted[f])

\* The dict a tool input stands for: a str input is parsed, a dict is itself.
RequestOf(input) ==
    IF IsStr(input) THEN ParseJson(input.json) ELSE [ok |-> TRUE, value |-> input]

\* C14: a roll_dice request with sides >= 1 and times >= 1 (times is 1 when
\* absent) returns the JSON of a rolls list of exactly times integers of
\* 1..sides after sending exactly one fragment, the breakdown that starts with
\* "<times>d<sides> -> "; a request with sides < 1 or times < 1 raises and
\* sends nothing.
C14_RollDiceRollsTimesDice ==
    \A c \in Convs :
        \A e \in 1..Len(toolLog[c]) :
            LET t == toolLog[c][e]
                d == RequestOf(t.input).value
                times == IF "times" \in DOMAIN d THEN d.times ELSE 1
            IN  (/\ t.name = "roll_dice"
                 /\ RequestOf(t.input).ok
                 /\ "sides" \in DOMAIN d)
                => IF d.sides >= 1 /\ times >= 1
                   THEN /\ t.outcome.kind = "return"
                        /\ \E rolls \in [1..times -> 1..d.sides] :
                               t.outcome.value = RollsJson(rolls)
                        /\ Len(t.outcome.emitted) = 1
                        /\ StartsWith(t.outcome.emitted[1],
                                      ToString(times) \o "d" \o ToString(d.sides)
                                          \o " -> ")
                        /\ (t.call = 0 /\ Len(toolLog[c]) = 1)
                           => sink[c] = t.outcome.emitted
                   ELSE /\ t.outcome.kind = "raise"
                        /\ t.outcome.emitted = << >>
                        /\ (t.call = 0 /\ Len(toolLog[c]) = 1) => sink[c] = << >>

\* roll_dice was run on {"sides": 2} and rolled one 2, then on {"sides": 1,
\* "times": 0}, which raised.
C14_Witness ==
    \E c \in Convs :
        /\ Len(toolLog[c]) = 2
        /\ toolLog[c][1].name = "roll_dice"
        /\ toolLog[c][1].input = [sides |-> 2]
        /\ toolLog[c][1].outcome.value = "{\"rolls\":[2]}"
        /\ toolLog[c][2].name = "roll_dice"
        /\ toolLog[c][2].input = [sides |-> 1, times |-> 0]
        /\ toolLog[c][2].outcome.kind = "raise"
        /\ Len(sink[c]) = 1

\* C15: the dataset stays the dict it was at import, whatever the
\* conversations do; every system prompt built is the base segment followed by
\* one segment of its own that carries the cache flag, names the four party
\* members and holds the sheet exactly when the name is a key of the dataset;
\* so two conversations that built it for the same name, at different times
\* and with steps of other conversations in between, hold identical segments.
C15_PromptAssemblyIsIdempotent ==
    /\ sheets = SheetsAtImport
    /\ \A c \in Convs :
        system[c] # << >> =>
            /\ Len(system[c]) = 2
            /\ system[c][1] = BaseSegment
            /\ DOMAIN system[c][1] = {"type", "text"}
            /\ system[c][2].cache_control = [type |-> "ephemeral"]
            /\ StartsWith(system[c][2].text,
                   "The party members are: "
                   \o "[\"Alistair Darrow\",\"Hoglat\",\"Vesper\",\"Zauber Stab\"]")
            /\ Contains(system[c][2].text, "Here is the player's character sheet:")
               <=> args[c].character_name \in DOMAIN SheetsAtImport
    /\ \A c, d \in Convs :
        (/\ system[c] # << >> /\ system[d] # << >>
         /\ args[c].character_name = args[d].character_name)
        => system[c] = system[d]

\* Two conversations built the system prompt for "Hoglat"; the first had
\* run both its tools and was over before the second started.
C15_Witness ==
    \E c, d \in Convs :
        /\ c # d
        /\ args[c].character_name = "Hoglat" /\ args[d].character_name = "Hoglat"
        /\ pc[c] = "done" /\ Len(toolLog[c]) = 2
        /\ toolLog[c][2].name = "roll_dice"
        /\ system[d] # << >>
        /\ callLog[d][1].sent = 0 /\ Len(respLog[d]) = 0

\* C16: every Gateway call after the first follows an assistant turn that
\* holds at least one tool_use block: a turn without one is the last answer,
\* whatever its stop_reason.
C16_NextCallOnlyAfterToolUse ==
    \A c \in Convs :
        \A k \in 1..Len(respLog[c]) :
            (Answered(c, k)
             /\ ToolUsePositions(respLog[c][k].message.content) = << >>)
            => k = Len(callLog[c])

\* The k-th iteration of c has gone past the append of its tool results.
ResultsAppended(c, k) ==
    Answered(c, k) /\ (k < Len(callLog[c]) \/ pc[c] \in {"send", "check", "done"})

\* The history of c as its answers and tool outcomes determine it: the user
\* turn with the prompt, then for every answer its assistant turn, followed,
\* once the iteration is past the append, by its tool-result turn if any
\* invocation returned.
ExpectedHistory(c) ==
    LET F[k \in 0..Len(respLog[c])] ==
            IF k = 0 THEN FirstMessages(args[c].user_prompt)
            ELSE IF ~Answered(c, k) THEN F[k - 1]
            ELSE F[k - 1]
                 \o << [role |-> "assistant",
                        content |-> respLog[c][k].message.content] >>
                 \o (IF ResultsAppended(c, k) THEN ResultTurns(c, k) ELSE << >>)
    IN  F[Len(respLog[c])]

\* C17: the history is the prompt's user turn followed, for each assistant
\* turn, by that turn and at most one tool-result turn right after it; the
\* tool-result turn holds one tool_result block for every tool use of the turn
\* that returned, with its id and value, in the order of the tool_use blocks,
\* and there is no such turn when no tool use returned.
C17_OneResultTurnPerAssistantTurn ==
    \A c \in Convs :
        Len(callLog[c]) > 0 =>
            /\ messages[c] = ExpectedHistory(c)
            /\ \A k \in 1..Len(respLog[c]) :
                Answered(c, k) =>
                    LET ran == Invocations(c, k)
                    IN  /\ \A i \in 1..Len(ran) :
                            /\ respLog[c][k].message.content[ran[i].block].type
                                   = "tool_use"
                            /\ respLog[c][k].message.content[ran[i].block].id
                                   = ran[i].id
                        /\ \A i, j \in 1..Len(ran) :
                            i < j => ran[i].block < ran[j].block
            /\ \A i \in 2..Len(messages[c]) :
                messages[c][i].role = "user" =>
                    /\ messages[c][i - 1].role = "assistant"
                    /\ messages[c][i].content # << >>
                    /\ \A j \in 1..Len(messages[c][i].content) :
                           messages[c][i].content[j].type = "tool_result"

\* Both tool uses of the first turn returned: the third turn of the history
\* holds their two results, and the second call has started.
C17_Witness ==
    \E c \in Convs :
        /\ Len(callLog[c]) = 2
        /\ Len(messages[c]) = 3
        /\ messages[c][3].role = "user"
        /\ Len(messages[c][3].content) = 2
        /\ messages[c][3].content[1].tool_use_id = "toolu_1_1"
        /\ messages[c][3].content[2].tool_use_id = "toolu_1_2"

\* The iterations of c whose send_reply was called, in order: those past the
\* send whose turn produced a reply entry.
SentTurns(c) ==
    LET F[k \in 0..Len(respLog[c])] ==
            IF k = 0 THEN << >>
            ELSE IF TurnSent(c, k) /\ TurnEntries(c, k) # << >>
            THEN Append(F[k - 1], k)
            ELSE F[k - 1]
    IN  F[Len(respLog[c])]

\* C18: the messages the loop has sent stand one to one, in order, for the
\* iterations that produced reply entries, and each is the newline-join of
\* the entries of its own turn in the order of the turn's blocks: the texts,
\* what the tools emitted and the "Error: ..." of those that raised, and the
\* diagnostics of unknown blocks.  When an iteration comes to its send, the
\* reply buffer holds exactly the entries of its turn.
C18_OneMessagePerTurn ==
    \A c \in Convs :
        Len(callLog[c]) > 0 =>
            /\ Len(sink[c]) = Len(SentTurns(c))
            /\ \A m \in 1..Len(sink[c]) :
                /\ sink[c][m] = JoinStr(TurnEntries(c, SentTurns(c)[m]), "\n")
                /\ callLog[c][SentTurns(c)[m]].sent = m - 1
            /\ pc[c] \in {"send", "check"} =>
                   replies[c] = TurnEntries(c, Len(respLog[c]))

\* A turn with a block of unknown type and a tool use that raised went out as
\* one message of two lines.
C18_Witness ==
    \E c \in Convs :
        /\ pc[c] = "check"
        /\ provider[c] = "free"
        /\ sink[c] = << "Unknown content type: thinking"
                        \o "\n" \o "Error: Character Nobody not found." >>

\* The sequence s is an initial part of the sequence t.
IsPrefix(s, t) == Len(s) <= Len(t) /\ SubSeq(t, 1, Len(s)) = s

\* C19: no step changes or removes a turn the history holds: the history
\* after a step has the history before it as a prefix.  So the history starts
\* with the one user turn that holds the prompt, and the history handed to
\* each earlier Gateway call is a prefix of what it is now.
C19_HistoryIsAppendOnly ==
    /\ [][\A c \in Convs : IsPrefix(messages[c], messages'[c])]_vars
    /\ [](\A c \in Convs :
            Len(callLog[c]) > 0 =>
                /\ IsPrefix(FirstMessages(args[c].user_prompt), messages[c])
                /\ callLog[c][1].messages = FirstMessages(args[c].user_prompt)
                /\ \A k \in 1..Len(callLog[c]) :
                       IsPrefix(callLog[c][k].messages, messages[c]))

\* The loop is over after three calls, each made with a longer history than
\* the one before.
C19_Witness ==
    \E c \in Convs :
        /\ pc[c] = "done"
        /\ Len(callLog[c]) = 3
        /\ Len(callLog[c][1].messages) < Len(callLog[c][2].messages)
        /\ Len(callLog[c][2].messages) < Len(callLog[c][3].messages)
        /\ Len(callLog[c][3].messages) < Len(messages[c])

\* The history and the number of messages sent when the k-th iteration of c
\* was over: what the next call started with, or what they are now.
AfterTurn(c, k) ==
    IF k < Len(callLog[c]) THEN callLog[c][k + 1]
    ELSE [messages |-> messages[c], sent |-> Len(sink[c])]

\* C20: a step of the loop that sends a message finds the reply buffer not
\* empty; and an iteration whose assistant turn has no content block sends
\* nothing and adds nothing but that assistant turn to the history.
C20_EmptyTurnSendsNothing ==
    /\ [][\A c \in Convs :
            (Len(callLog[c]) > 0 /\ sink'[c] # sink[c]) =>
                /\ replies[c] # << >>
                /\ Len(sink'[c]) = Len(sink[c]) + 1]_vars
    /\ [](\A c \in Convs :
            \A k \in 1..Len(respLog[c]) :
                (/\ TurnSent(c, k)
                 /\ respLog[c][k].message.content = << >>)
                => /\ AfterTurn(c, k).sent = callLog[c][k].sent
                   /\ AfterTurn(c, k).messages =
                          Append(callLog[c][k].messages,
                                 [role |-> "assistant", content |-> << >>]))

\* The first answer had no content block and asked for tools, the second had
\* none either and ended the loop: two empty assistant turns, nothing sent.
C20_Witness ==
    \E c \in Convs :
        /\ pc[c] = "done"
        /\ Len(respLog[c]) = 2
        /\ \A k \in 1..2 :
               Answered(c, k) /\ respLog[c][k].message.content = << >>
        /\ Len(messages[c]) = 3
        /\ sink[c] = << >>

\* The k-th answer to c holds one block, a tool_use, and its iteration is
\* past the send.
ToolUseOnlyTurn(c, k) ==
    /\ TurnSent(c, k)
    /\ Len(respLog[c][k].message.content) = 1
    /\ respLog[c][k].message.content[1].type = "tool_use"

\* C21 as stated: an iteration over a turn whose only block is a tool_use
\* adds the assistant turn and a tool-result turn to the history and sends
\* nothing to the sink.
C21_ToolUseOnlyTurnIsSilent ==
    \A c \in Convs :
        \A k \in 1..Len(respLog[c]) :
            ToolUseOnlyTurn(c, k) =>
                /\ AfterTurn(c, k).sent = callLog[c][k].sent
                /\ Len(AfterTurn(c, k).messages) = Len(callLog[c][k].messages) + 2
                /\ HasResultFor(Last(AfterTurn(c, k).messages),
                                respLog[c][k].message.content[1].id)

\* C21 as amended: such an iteration adds the assistant turn and, exactly
\* when the tool returned, a tool-result turn with its one result; it sends
\* nothing when the tool returned without emitting, as get_character_sheet
\* does for a party member, and otherwise one message that holds what the
\* tool emitted and the error it raised and nothing else, as for roll_dice,
\* whose breakdown is sent, and for an unknown tool.
C21_ToolUseOnlyTurnSendsToolOutput ==
    \A c \in Convs :
        \A k \in 1..Len(respLog[c]) :
            ToolUseOnlyTurn(c, k) =>
                LET use == respLog[c][k].message.content[1]
                    o == Invocations(c, k)[1].outcome
                    said == o.emitted \o (IF o.kind = "raise"
                                         THEN << "Error: " \o o.value >>
                                         ELSE << >>)
                IN  /\ Len(Invocations(c, k)) = 1
                    /\ AfterTurn(c, k).messages =
                           callLog[c][k].messages
                           \o << [role |-> "assistant", content |-> << use >>] >>
                           \o (IF o.kind = "return"
                               THEN << [role |-> "user",
                                        content |-> << ToolResult(use.id, o.value) >>] >>
                               ELSE << >>)
                    /\ IF said = << >>
                       THEN AfterTurn(c, k).sent = callLog[c][k].sent
                       ELSE /\ AfterTurn(c, k).sent = callLog[c][k].sent + 1
                            /\ sink[c][callLog[c][k].sent + 1] = JoinStr(said, "\n")
                    /\ (use.name = "get_character_sheet"
                        /\ use.input.character_name \in DOMAIN sheets)
                       => (said = << >> /\ o.kind = "return")
                    /\ (use.name = "roll_dice" /\ o.kind = "return")
                       => (Len(said) = 1 /\ StartsWith(said[1], "1d2 -> "))
                    /\ use.name = "roll" => said = << "Unknown tool: roll" >>

\* The only block of the first turn asked for Hoglat's sheet: the result turn
\* is in the history and nothing was sent when the second call started.
C21_Witness ==
    \E c \in Convs :
        /\ Len(callLog[c]) = 2
        /\ ToolUseOnlyTurn(c, 1)
        /\ respLog[c][1].message.content[1].name = "get_character_sheet"
        /\ Len(callLog[c][2].messages) = 3
        /\ callLog[c][2].sent = 0

\* C22: with a MockAnthropicClient every call_api of the loop returns the
\* canned message, none is handled as a failure, and once the turn is
\* processed its roll_dice tool use has been handed to handle_tool.
C22_MockAnswersWithCannedTurn ==
    \A c \in Convs :
        provider[c] = "mock" =>
            \A k \in 1..Len(respLog[c]) :
                /\ respLog[c][k].kind = "message"
                /\ respLog[c][k].message = mock_call_api
                /\ TurnProcessed(c, k) =>
                       \E e \in 1..Len(toolLog[c]) :
                           /\ toolLog[c][e].call = k
                           /\ toolLog[c][e].name = "roll_dice"

\* How many entries of the sequence seq equal x.
Count(seq, x) == Len(SelectSeq(seq, LAMBDA y : y = x))

\* The entries of a reply buffer that report an error.
ErrorEntries(seq) == SelectSeq(seq, LAMBDA y : StartsWith(y, "Error: "))

\* C23: a tool use of the loop that names an unknown tool returns: while its
\* iteration lasts, the reply buffer holds "Unknown tool: <name>" once for
\* every such tool use of the turn and an "Error: ..." entry only for the
\* tool uses that raised; its tool_result, with the id of the tool use and
\* that string as content, is among the turn's results and, after the append,
\* in the history.
C23_UnknownToolIsAnswered ==
    \A c \in Convs :
        \A e \in 1..Len(toolLog[c]) :
            LET t == toolLog[c][e]
                s == "Unknown tool: " \o t.name
                ran == Invocations(c, t.call)
            IN  (t.call > 0 /\ t.name \notin {"get_character_sheet", "roll_dice"})
                => /\ t.outcome.kind = "return"
                   /\ (t.call = Len(callLog[c])
                       /\ pc[c] \in {"blocks", "send", "check"})
                      => /\ Count(replies[c], s) =
                                Len(SelectSeq(ran, LAMBDA r : r.name = t.name))
                         /\ Len(ErrorEntries(replies[c])) =
                                Len(SelectSeq(ran, LAMBDA r :
                                                r.outcome.kind = "raise"))
                         /\ Count(tool_results[c], ToolResult(t.id, s)) = 1
                   /\ ResultsAppended(c, t.call)
                      => \E i \in 1..Len(messages[c]) :
                             /\ messages[c][i].role = "user"
                             /\ Count(messages[c][i].content,
                                      ToolResult(t.id, s)) = 1

\* The first turn used the unknown tool "roll" and a roll_dice that raised;
\* the second call started with the result of "roll" alone in the history.
C23_Witness ==
    \E c \in Convs :
        /\ Len(callLog[c]) = 2
        /\ Len(toolLog[c]) = 2
        /\ toolLog[c][1].name = "roll"
        /\ toolLog[c][2].outcome.kind = "raise"
        /\ Last(callLog[c][2].messages).content =
               << ToolResult("toolu_1_1", "Unknown tool: roll") >>

\* The positions up to n of the blocks of content that are neither text nor
\* tool_use.
OtherPositions(content, n) ==
    { i \in 1..n : i <= Len(content) /\ content[i].type \notin {"text", "tool_use"} }

\* The step of conversation c that handles a block of another type.
OtherBlockStep(c) ==
    /\ AtBlock(c)
    /\ Block(c).type \notin {"text", "tool_use"}
    /\ idx'[c] # idx[c]

\* C24: the step on a block that is neither text nor tool_use appends
\* "Unknown content type: <type>" to the reply buffer, leaves the tool
\* results, the history and the sink alone and moves to the next block; the
\* turn's tool results stay one per returned tool use, every tool_use block
\* of a processed turn with such a block has run, and whether another call
\* follows that turn is decided by its stop_reason.
C24_OtherBlockOnlyAddsDiagnostic ==
    /\ [][\A c \in Convs :
            OtherBlockStep(c) =>
                /\ replies'[c] =
                       Append(replies[c], "Unknown content type: " \o Block(c).type)
                /\ tool_results'[c] = tool_results[c]
                /\ messages'[c] = messages[c]
                /\ sink'[c] = sink[c]
                /\ toolLog'[c] = toolLog[c]
                /\ idx'[c] = idx[c] + 1
                /\ pc'[c] = "blocks"]_vars
    /\ [](\A c \in Convs :
            \A k \in 1..Len(respLog[c]) :
                (Answered(c, k)
                 /\ OtherPositions(respLog[c][k].message.content,
                                   Len(respLog[c][k].message.content)) # { })
                => LET m == respLog[c][k].message
                   IN  /\ (k = Len(callLog[c]) /\ pc[c] \in {"blocks", "send", "check"})
                          => /\ Count(replies[c], "Unknown content type: thinking") =
                                    Cardinality(OtherPositions(m.content, idx[c] - 1))
                             /\ Len(tool_results[c]) =
                                    Len(SelectSeq(Invocations(c, k), LAMBDA r :
                                                    r.outcome.kind = "return"))
                       /\ TurnProcessed(c, k)
                          => \A j \in 1..Len(m.content) :
                                 m.content[j].type = "tool_use"
                                 => \E e \in 1..Len(toolLog[c]) :
                                        /\ toolLog[c][e].call = k
                                        /\ toolLog[c][e].block = j
                       /\ k < Len(callLog[c]) => m.stop_reason = "tool_use"
                       /\ (k = Len(callLog[c]) /\ pc[c] = "done")
                          => m.stop_reason # "tool_use"
                       /\ (k = Len(callLog[c]) /\ pc[c] = "check")
                          => IF m.stop_reason = "tool_use"
                             THEN ~ENABLED Break(c)
                             ELSE ENABLED Break(c) /\ ~ENABLED Continue(c))

\* A turn began with a block of another type and went on to run the roll_dice
\* of its second block; the diagnostic and the roll were sent in one message
\* and the second call started.
C24_Witness ==
    \E c \in Convs :
        /\ Len(callLog[c]) = 2
        /\ Answered(c, 1)
        /\ Len(respLog[c][1].message.content) = 2
        /\ respLog[c][1].message.content[1].type = "thinking"
        /\ Len(toolLog[c]) = 1
        /\ toolLog[c][1].block = 2
        /\ toolLog[c][1].outcome.kind = "return"
        /\ Len(sink[c]) = 1
        /\ StartsWith(sink[c][1], "Unknown content type: thinking\n1d2 -> ")

\* The block positions of the tool invocations of call k, in the order in
\* which they ran.
InvokedBlocks(c, k) ==
    [e \in 1..Len(Invocations(c, k)) |-> Invocations(c, k)[e].block]

\* C25: within a conversation a step runs at most one tool, the tool of the
\* block the for loop is at, and runs it to its return or raise before the
\* loop moves on; the invocations of a turn follow the order of its tool_use
\* blocks; a further call is made only from the end of an iteration, when
\* every tool_use block of the turn has run and the turn's message, if it
\* has one, is in the sink.
C25_ToolsRunInBlockOrderBeforeNextCall ==
    /\ [][\A c \in Convs :
            /\ (Len(toolLog'[c]) > Len(toolLog[c]))
               => /\ toolLog'[c] = Append(toolLog[c], Last(toolLog'[c]))
                  /\ AtBlock(c)
                  /\ Last(toolLog'[c]).call = Len(callLog[c])
                  /\ Last(toolLog'[c]).block = idx[c]
                  /\ Last(toolLog'[c]).outcome.kind \in {"return", "raise"}
                  /\ idx'[c] = idx[c] + 1
                  /\ callLog'[c] = callLog[c]
            /\ (Len(callLog[c]) > 0 /\ Len(callLog'[c]) > Len(callLog[c]))
               => /\ pc[c] = "check"
                  /\ toolLog'[c] = toolLog[c]
                  /\ sink'[c] = sink[c]
                  /\ Len(callLog'[c]) = Len(callLog[c]) + 1]_vars
    /\ [](\A c \in Convs :
            \A k \in 1..Len(respLog[c]) :
                Answered(c, k) =>
                    LET pos == ToolUsePositions(respLog[c][k].message.content)
                    IN  /\ IsPrefix(InvokedBlocks(c, k), pos)
                        /\ (k = Len(callLog[c]) /\ pc[c] = "blocks")
                           => InvokedBlocks(c, k) =
                                  SelectSeq(pos, LAMBDA p : p < idx[c])
                        /\ k < Len(callLog[c])
                           => /\ InvokedBlocks(c, k) = pos
                              /\ callLog[c][k + 1].sent =
                                     callLog[c][k].sent
                                     + (IF TurnEntries(c, k) = << >> THEN 0 ELSE 1)
                              /\ callLog[c][k + 1].sent <= Len(sink[c]))

\* A turn with two tool uses that both returned: they ran in block order,
\* one message was sent, and then the second call started.
C25_Witness ==
    \E c \in Convs :
        /\ Len(callLog[c]) = 2
        /\ Len(toolLog[c]) = 2
        /\ toolLog[c][1].block = 1 /\ toolLog[c][1].outcome.kind = "return"
        /\ toolLog[c][2].block = 2 /\ toolLog[c][2].outcome.kind = "return"
        /\ toolLog[c][1].call = 1 /\ toolLog[c][2].call = 1
        /\ callLog[c][2].sent = 1

\* The sequence part occurs in the sequence seq as a run of adjacent entries.
HasRun(seq, part) ==
    \E i \in 0..(Len(seq) - Len(part)) : SubSeq(seq, i + 1, i + Len(part)) = part

\* C26: the fragments a tool emitted before it raised stay in the reply
\* buffer for the rest of the iteration, directly followed by the tool's
\* "Error: ..." entry; the message of that iteration carries them, in order
\* and before the error entry; the tool use gets no tool_result, neither
\* among the turn's results nor in the history.
C26_FragmentsOfRaisingToolAreDelivered ==
    \A c \in Convs :
        \A e \in 1..Len(toolLog[c]) :
            LET t == toolLog[c][e]
                entries == t.outcome.emitted \o << "Error: " \o t.outcome.value >>
            IN  (t.call > 0 /\ t.outcome.kind = "raise" /\ t.outcome.emitted # << >>)
                => /\ (t.call = Len(callLog[c])
                       /\ pc[c] \in {"blocks", "send", "check"})
                      => /\ HasRun(replies[c], entries)
                         /\ \A j \in 1..Len(tool_results[c]) :
                                tool_results[c][j].tool_use_id # t.id
                   /\ TurnSent(c, t.call)
                      => /\ Len(sink[c]) > callLog[c][t.call].sent
                         /\ Contains(sink[c][callLog[c][t.call].sent + 1],
                                     JoinStr(entries, "\n"))
                   /\ \A i \in 1..Len(messages[c]) :
                          ~HasResultFor(messages[c][i], t.id)

\* A tool emitted two fragments and raised; the message of its turn, with
\* the text before it, was sent and the next call started without a
\* tool-result turn.
C26_Witness ==
    \E c \in Convs :
        /\ Len(callLog[c]) = 2
        /\ Len(toolLog[c]) = 1
        /\ toolLog[c][1].outcome.kind = "raise"
        /\ Len(toolLog[c][1].outcome.emitted) = 2
        /\ Len(sink[c]) = 1
        /\ sink[c][1] = "Rolling for 1\nWorking on get_character_sheet\nHalf done\nError: tool failed"
        /\ Len(callLog[c][2].messages) = 2

\* The calls of conversation c that the Gateway answered with a message.
SuccessfulCalls(c) == { k \in 1..Len(respLog[c]) : Answered(c, k) }

\* The length of the sink of conversation c when round trip k was over: at
\* the start of the next call or, for the latest one, now.
SentAfter(c, k) ==
    IF k < Len(callLog[c]) THEN callLog[c][k + 1].sent ELSE Len(sink[c])

\* C27: when the prompt is not "emojis", the sink has received no more
\* messages than the Gateway has answered calls; every call adds at most
\* one message, a call that failed adds none, and the message a call adds
\* is the joined buffer of that call's turn, so the messages lie in the
\* sink in the order of their round trips.
C27_AtMostOneMessagePerSuccessfulCall ==
    \A c \in Convs :
        (pc[c] # "idle" /\ args[c].user_prompt # "emojis")
        => /\ Len(sink[c]) <= Cardinality(SuccessfulCalls(c))
           /\ Len(callLog[c]) > 0 /\ callLog[c][1].sent = 0
           /\ \A k \in 1..Len(callLog[c]) :
                  /\ SentAfter(c, k) - callLog[c][k].sent \in {0, 1}
                  /\ SentAfter(c, k) > callLog[c][k].sent
                     => /\ k \in SuccessfulCalls(c)
                        /\ sink[c][SentAfter(c, k)] =
                               JoinStr(TurnEntries(c, k), "\n")

\* Three calls: the first two were answered and each put one message in the
\* sink, the third failed and put none.
C27_Witness ==
    \E c \in Convs :
        /\ Len(respLog[c]) = 3
        /\ Answered(c, 1) /\ Answered(c, 2)
        /\ respLog[c][3].kind = "error"
        /\ callLog[c][2].sent = 1
        /\ callLog[c][3].sent = 2
        /\ Len(sink[c]) = 2
        /\ pc[c] = "done"

====
